---- MODULE Spec2Model ----
(***************************************************************************)
(* A model of the cantools schema objects (Signal, Bus, InternalDatabase)  *)
(* and of the `convert` command line subcommand.                           *)
(*                                                                         *)
(* Python values are tagged records, so that values of different Python    *)
(* types can be stored in the same attribute and compared: None, int, str, *)
(* list and dict.  A dict is a function from a set of keys to values.      *)
(***************************************************************************)
EXTENDS Integers, Sequences, FiniteSets, TLC

VARIABLES
    sig_args,    \* the arguments Signal(...) was constructed with, or None
    sig,         \* the Signal object (its attributes), or None
    allocated,   \* number of conversion objects built so far
    sig_ret,     \* what the last read of Signal.comment returned, or NotRead
    bus_args,    \* the arguments Bus(...) was constructed with, or None
    bus,         \* the Bus object, or None
    bus_ret,     \* outcome of the last read of Bus.comment / repr(bus)
    db_args,     \* the arguments InternalDatabase(...) was constructed with
    db,          \* the InternalDatabase object, or None
    cli_parser,  \* the argparse sub-parser registered for `convert`, or None
    cli_argv,    \* the command line given to parse_args, or None
    cli_args,    \* the parsed argparse namespace, or None
    cli_out,     \* outcome of args.func(args), or None
    main_dir,    \* the entries of the subparsers directory _main lists, or None
    main_left,   \* the entries _main's loop has not visited yet
    main_subs,   \* the subcommands registered on the parser so far
    main_cmd,    \* the subcommand on the command line, or None
    main_out     \* outcome of _main: an exception, the handler's return, or None

vars == <<sig_args, sig, allocated, sig_ret, bus_args, bus, bus_ret,
          db_args, db, cli_parser, cli_argv, cli_args, cli_out,
          main_dir, main_left, main_subs, main_cmd, main_out>>

sig_vars == <<sig_args, sig, allocated, sig_ret>>
bus_vars == <<bus_args, bus, bus_ret>>
db_vars  == <<db_args, db>>
cli_vars == <<cli_parser, cli_argv, cli_args, cli_out>>
main_vars == <<main_dir, main_left, main_subs, main_cmd, main_out>>

----------------------------------------------------------------------------
(* Python values *)

None == [t |-> "None"]
PyInt(n) == [t |-> "int", v |-> n]
PyStr(s) == [t |-> "str", v |-> s]
PyList(s) == [t |-> "list", v |-> s]
PyDict(d) == [t |-> "dict", v |-> d]

\* an attribute or a variable that was not read or written yet
NotRead == [t |-> "unset"]

\* an exception that left the call
Raised(e) == [t |-> "raised", v |-> e]

\* d.get(k) of a dict d: the entry, or None when the key is absent
DictGet(d, k) == IF k \in DOMAIN d.v THEN d.v[k] ELSE None

\* isinstance(x, str)
IsStr(x) == x.t = "str"

\* isinstance(x, int)
IsInt(x) == x.t = "int"

\* Python truthiness of the values used with `or`
Truthy(x) ==
    CASE x.t = "None" -> FALSE
      [] x.t = "list" -> Len(x.v) > 0
      [] x.t = "str"  -> x.v /= ""
      [] x.t = "int"  -> x.v /= 0
      [] x.t = "dict" -> DOMAIN x.v /= {}
      [] OTHER        -> TRUE

\* all dicts with keys among K and values among V
DictsOver(K, V) == {PyDict(d) : d \in UNION {[S -> V] : S \in SUBSET K}}

----------------------------------------------------------------------------
(* Bounds of the model *)

MaxStart == 1          \* start bits 0..MaxStart
MaxLength == 2         \* lengths 1..MaxLength
MaxRaw == 1            \* raw sentinel values 0..MaxRaw
MaxBound == 1          \* minimum/maximum in -MaxBound..MaxBound
MaxScale == 2          \* scales 1..MaxScale
MaxOffset == 1         \* offsets 0..MaxOffset
MaxConversions == 3    \* conversion objects built per Signal
MaxBaudrate == 2       \* baudrates 1..MaxBaudrate

\* Optional[int] values lo..hi
OptInts(lo, hi) == {None} \cup {PyInt(n) : n \in lo..hi}

----------------------------------------------------------------------------
(* Conversion: cantools/database/conversion.py *)

\* a conversion object; obj is the identity of the object
Conversion(scale, offset, choices, is_float, obj) ==
    [t |-> "conversion", scale |-> scale, offset |-> offset,
     choices |-> choices, is_float |-> is_float, obj |-> obj]

\* IdentityConversion(is_float=...)
IdentityConversion(is_float, obj) == Conversion(1, 0, None, is_float, obj)

\* BaseConversion.factory(scale=, offset=, choices=, is_float=): a new
\* conversion object carrying the four given fields
factory(scale, offset, choices, is_float, obj) ==
    Conversion(scale, offset, choices, is_float, obj)

\* conversion.raw_to_scaled(raw, decode_choices): the choice's name when
\* decode_choices and raw is a key of choices, else raw * scale + offset
raw_to_scaled(conv, raw, decode_choices) ==
    IF decode_choices /\ conv.choices /= None /\ raw \in DOMAIN conv.choices.v
    THEN conv.choices.v[raw]
    ELSE PyInt(raw.v * conv.scale + conv.offset)

----------------------------------------------------------------------------
(* Signal: cantools/database/can/signal.py *)

\* -x of an int
Neg(x) == PyInt(0 - x.v)

Signal_init(a, obj) ==
    LET conversion == IF Truthy(a.conversion) THEN a.conversion
                      ELSE IdentityConversion(FALSE, obj)
    IN  [t |-> "Signal",
         name |-> a.name,
         conversion |-> conversion,
         minimum |-> IF a.maximum /= None THEN Neg(a.maximum) ELSE None,
         maximum |-> IF a.minimum /= None THEN Neg(a.minimum) ELSE None,
         start |-> a.length,
         length |-> a.start,
         byte_order |-> "big_endian",
         is_signed |-> ~a.is_signed,
         raw_initial |-> a.raw_invalid,
         initial |-> IF a.raw_invalid /= None
                     THEN raw_to_scaled(conversion, a.raw_invalid, TRUE)
                     ELSE None,
         raw_invalid |-> a.raw_initial,
         invalid |-> IF a.raw_initial /= None
                     THEN raw_to_scaled(conversion, a.raw_initial, TRUE)
                     ELSE None,
         unit |-> a.unit,
         dbc |-> a.dbc_specifics,
         receivers |-> IF Truthy(a.receivers) THEN a.receivers ELSE PyList(<<>>),
         is_multiplexer |-> a.is_multiplexer,
         multiplexer_ids |-> a.multiplexer_signal,
         multiplexer_signal |-> a.spn,
         spn |-> a.spn,
         comments |-> IF IsStr(a.comment)
                      THEN PyDict([k \in {None} |-> a.comment])
                      ELSE a.comment]

\* the scale setter with the new value passed as the offset as well
Signal_scale_set_offset_too(self, value, obj) ==
    [self EXCEPT !.conversion =
        factory(value, value, self.conversion.choices,
                self.conversion.is_float, obj)]

Signal_scale_set(self, value, obj) ==
    [self EXCEPT !.conversion =
        factory(value, self.conversion.offset, self.conversion.choices,
                self.conversion.is_float, obj)]

Signal_offset_set(self, value, obj) ==
    [self EXCEPT !.conversion =
        factory(self.conversion.scale, value, self.conversion.choices,
                self.conversion.is_float, obj)]

Signal_choices_set(self, choices, obj) ==
    [self EXCEPT !.conversion =
        factory(self.conversion.scale, self.conversion.offset, choices,
                self.conversion.is_float, obj)]

Signal_is_float_set(self, is_float, obj) ==
    [self EXCEPT !.conversion =
        factory(self.conversion.scale, self.conversion.offset,
                self.conversion.choices, is_float, obj)]

\* the comment getter looking up "EN" before "FOR-ALL"
Signal_comment_get_en_first(self) ==
    IF self.comments = None THEN None
    ELSE IF DictGet(self.comments, None) /= None
         THEN DictGet(self.comments, None)
    ELSE IF DictGet(self.comments, PyStr("EN")) /= None
         THEN DictGet(self.comments, PyStr("EN"))
    ELSE DictGet(self.comments, PyStr("FOR-ALL"))

Signal_comment_get(self) ==
    IF self.comments = None THEN None
    ELSE IF DictGet(self.comments, None) /= None
         THEN DictGet(self.comments, None)
    ELSE IF DictGet(self.comments, PyStr("FOR-ALL")) /= None
         THEN DictGet(self.comments, PyStr("FOR-ALL"))
    ELSE DictGet(self.comments, PyStr("EN"))

Signal_comment_set(self, value) ==
    IF value = None
    THEN [self EXCEPT !.comments = None]
    ELSE [self EXCEPT !.comments = PyDict([k \in {None} |-> value])]

----------------------------------------------------------------------------
(* The Signals constructed: every argument of Signal(...) takes its default *)
(* except those of one group, which range over the sets below.             *)

Choices01 == PyDict((PyInt(0) :> PyStr("OFF")) @@ (PyInt(1) :> PyStr("ON")))

\* conversions the caller passes: none, a linear one, one with choices
ArgConversions ==
    {None, Conversion(MaxScale, MaxOffset, None, FALSE, 1),
     Conversion(1, 0, Choices01, FALSE, 1)}

Texts == {PyStr("a"), PyStr("b")}
LangKeys == {None, PyStr("FOR-ALL"), PyStr("EN")}
CommentDicts == DictsOver(LangKeys, {None} \cup Texts)

DefaultArgs ==
    [name |-> "S", start |-> 0, length |-> 1,
     byte_order |-> "little_endian", is_signed |-> FALSE,
     raw_initial |-> None, raw_invalid |-> None, conversion |-> None,
     minimum |-> None, maximum |-> None, unit |-> None,
     dbc_specifics |-> None, comment |-> None, receivers |-> None,
     is_multiplexer |-> FALSE, multiplexer_ids |-> None,
     multiplexer_signal |-> None, spn |-> None]

LayoutArgs ==
    {[DefaultArgs EXCEPT !.start = s, !.length = l, !.byte_order = b,
                         !.is_signed = g] :
        s \in 0..MaxStart, l \in 1..MaxLength,
        b \in {"little_endian", "big_endian"}, g \in BOOLEAN}

BoundsArgs ==
    {[DefaultArgs EXCEPT !.minimum = lo, !.maximum = hi] :
        lo \in OptInts(0 - MaxBound, MaxBound),
        hi \in OptInts(0 - MaxBound, MaxBound)}

SentinelArgs ==
    {[DefaultArgs EXCEPT !.raw_initial = a, !.raw_invalid = b,
                         !.conversion = c] :
        a \in OptInts(0, MaxRaw), b \in OptInts(0, MaxRaw),
        c \in ArgConversions}

MuxArgs ==
    {[DefaultArgs EXCEPT !.is_multiplexer = m, !.multiplexer_ids = ids,
                         !.multiplexer_signal = sel, !.spn = p,
                         !.unit = u, !.receivers = r] :
        m \in BOOLEAN, ids \in {None, PyList(<<1, 2>>)},
        sel \in {None, PyStr("Mux")}, p \in {None, PyInt(1)},
        u \in {None, PyStr("V")},
        r \in {None, PyList(<<>>), PyList(<<"N">>)}}

CommentArgs ==
    {[DefaultArgs EXCEPT !.comment = c] : c \in {None} \cup Texts \cup CommentDicts}

SignalArgs ==
    LayoutArgs \cup BoundsArgs \cup SentinelArgs \cup MuxArgs \cup CommentArgs

----------------------------------------------------------------------------
(* Actions on the Signal *)

\* sig = Signal(**a)
SignalNew(a) ==
    /\ sig = None
    /\ sig_args' = a
    /\ sig' = Signal_init(a, 1)
    /\ allocated' = 1
    /\ UNCHANGED <<sig_ret, bus_vars, db_vars, cli_vars, main_vars>>

\* sig.scale = value
SetScale(value) ==
    /\ sig /= None
    /\ allocated < MaxConversions
    /\ sig' = Signal_scale_set(sig, value, allocated + 1)
    /\ allocated' = allocated + 1
    /\ UNCHANGED <<sig_args, sig_ret, bus_vars, db_vars, cli_vars, main_vars>>

\* sig.offset = value
SetOffset(value) ==
    /\ sig /= None
    /\ allocated < MaxConversions
    /\ sig' = Signal_offset_set(sig, value, allocated + 1)
    /\ allocated' = allocated + 1
    /\ UNCHANGED <<sig_args, sig_ret, bus_vars, db_vars, cli_vars, main_vars>>

\* sig.choices = choices
SetChoices(choices) ==
    /\ sig /= None
    /\ allocated < MaxConversions
    /\ sig' = Signal_choices_set(sig, choices, allocated + 1)
    /\ allocated' = allocated + 1
    /\ UNCHANGED <<sig_args, sig_ret, bus_vars, db_vars, cli_vars, main_vars>>

\* sig.is_float = is_float
SetIsFloat(is_float) ==
    /\ sig /= None
    /\ allocated < MaxConversions
    /\ sig' = Signal_is_float_set(sig, is_float, allocated + 1)
    /\ allocated' = allocated + 1
    /\ UNCHANGED <<sig_args, sig_ret, bus_vars, db_vars, cli_vars, main_vars>>

\* sig.comment = value
SetComment(value) ==
    /\ sig /= None
    /\ sig' = Signal_comment_set(sig, value)
    /\ UNCHANGED <<sig_args, allocated, sig_ret, bus_vars, db_vars, cli_vars, main_vars>>

\* sig.comment
GetComment ==
    /\ sig /= None
    /\ sig_ret' = Signal_comment_get(sig)
    /\ UNCHANGED <<sig_args, sig, allocated, bus_vars, db_vars, cli_vars, main_vars>>

InitIdle ==
    /\ sig_args = None /\ sig = None /\ allocated = 0 /\ sig_ret = NotRead
    /\ bus_args = None /\ bus = None /\ bus_ret = NotRead
    /\ db_args = None /\ db = None
    /\ cli_parser = None /\ cli_argv = None /\ cli_args = None
    /\ cli_out = None
    /\ main_dir = None /\ main_left = {} /\ main_subs = {}
    /\ main_cmd = None /\ main_out = None

NextSignal ==
    \/ \E a \in SignalArgs : SignalNew(a)
    \/ \E v \in 1..MaxScale : SetScale(v)
    \/ \E v \in 0..MaxOffset : SetOffset(v)
    \/ \E c \in {None, Choices01} : SetChoices(c)
    \/ \E b \in BOOLEAN : SetIsFloat(b)
    \/ \E v \in {None} \cup Texts : SetComment(v)
    \/ GetComment

SpecSignal == InitIdle /\ [][NextSignal]_vars

----------------------------------------------------------------------------
(* Claims about the Signal *)

\* C1: a constructed Signal has start, length, byte_order and is_signed
\* equal to the constructor arguments of the same names.
C1_LayoutStored ==
    sig /= None =>
        /\ sig.start = sig_args.start
        /\ sig.length = sig_args.length
        /\ sig.byte_order = sig_args.byte_order
        /\ sig.is_signed = sig_args.is_signed

\* C2: a constructed Signal has minimum and maximum equal to the
\* constructor arguments of the same names (None included).
C2_BoundsStored ==
    sig /= None =>
        /\ sig.minimum = sig_args.minimum
        /\ sig.maximum = sig_args.maximum

\* C3: right after construction raw_initial and raw_invalid are the
\* arguments of the same names, and initial / invalid are the scaled values
\* of those same raw values (None for None).
C3_SentinelsPaired ==
    (sig /= None /\ allocated = 1) =>
        /\ sig.raw_initial = sig_args.raw_initial
        /\ sig.initial = IF sig_args.raw_initial = None THEN None
                         ELSE raw_to_scaled(sig.conversion, sig_args.raw_initial, TRUE)
        /\ sig.raw_invalid = sig_args.raw_invalid
        /\ sig.invalid = IF sig_args.raw_invalid = None THEN None
                         ELSE raw_to_scaled(sig.conversion, sig_args.raw_invalid, TRUE)

\* C4: a constructed Signal has is_multiplexer, multiplexer_ids,
\* multiplexer_signal, spn and unit equal to the arguments of the same
\* names, and receivers equal to the argument, or [] when it is None.
C4_MuxAndMetadataStored ==
    sig /= None =>
        /\ sig.is_multiplexer = sig_args.is_multiplexer
        /\ sig.multiplexer_ids = sig_args.multiplexer_ids
        /\ sig.multiplexer_signal = sig_args.multiplexer_signal
        /\ sig.spn = sig_args.spn
        /\ sig.unit = sig_args.unit
        /\ sig.receivers = IF sig_args.receivers = None THEN PyList(<<>>)
                           ELSE sig_args.receivers

\* the Signal after differs from the Signal before in its conversion only
OnlyConversionChanged(before, after) ==
    [after EXCEPT !.conversion = before.conversion] = before

\* the conversion after is an object that did not exist before
NewlyBuilt(after) == after.conversion.obj > allocated

\* C5: every assignment to scale, offset, choices or is_float replaces the
\* conversion by a newly built one holding the assigned value in the
\* assigned field and the previous values in the other three, and changes
\* no other attribute of the Signal.
C5_SettersRebuildConversion ==
    [][/\ \A v \in 1..MaxScale : SetScale(v) =>
            /\ sig'.conversion.scale = v
            /\ sig'.conversion.offset = sig.conversion.offset
            /\ sig'.conversion.choices = sig.conversion.choices
            /\ sig'.conversion.is_float = sig.conversion.is_float
            /\ NewlyBuilt(sig') /\ OnlyConversionChanged(sig, sig')
       /\ \A v \in 0..MaxOffset : SetOffset(v) =>
            /\ sig'.conversion.scale = sig.conversion.scale
            /\ sig'.conversion.offset = v
            /\ sig'.conversion.choices = sig.conversion.choices
            /\ sig'.conversion.is_float = sig.conversion.is_float
            /\ NewlyBuilt(sig') /\ OnlyConversionChanged(sig, sig')
       /\ \A c \in {None, Choices01} : SetChoices(c) =>
            /\ sig'.conversion.scale = sig.conversion.scale
            /\ sig'.conversion.offset = sig.conversion.offset
            /\ sig'.conversion.choices = c
            /\ sig'.conversion.is_float = sig.conversion.is_float
            /\ NewlyBuilt(sig') /\ OnlyConversionChanged(sig, sig')
       /\ \A b \in BOOLEAN : SetIsFloat(b) =>
            /\ sig'.conversion.scale = sig.conversion.scale
            /\ sig'.conversion.offset = sig.conversion.offset
            /\ sig'.conversion.choices = sig.conversion.choices
            /\ sig'.conversion.is_float = b
            /\ NewlyBuilt(sig') /\ OnlyConversionChanged(sig, sig')
      ]_vars

\* a Signal with metadata set whose scale and offset were both assigned
C5_Witness ==
    /\ sig /= None
    /\ sig.unit = PyStr("V") /\ sig.spn = PyInt(1)
    /\ sig_args.conversion = None
    /\ sig.conversion.scale = MaxScale /\ sig.conversion.offset = MaxOffset
    /\ sig.conversion.obj > 2

\* the comment the resolution rule selects from comments
ResolvedComment(comments) ==
    IF comments = None THEN None
    ELSE LET d == comments.v
             has(k) == k \in DOMAIN d /\ d[k] /= None
         IN  CASE has(None) -> d[None]
               [] ~has(None) /\ has(PyStr("FOR-ALL")) -> d[PyStr("FOR-ALL")]
               [] ~has(None) /\ ~has(PyStr("FOR-ALL")) /\ has(PyStr("EN")) ->
                    d[PyStr("EN")]
               [] OTHER -> None

\* C6: reading comment returns None when comments is None, else the
\* None-keyed entry if present and not None, else the "FOR-ALL" entry if
\* present and not None, else the "EN" entry, else None; constructing with a
\* string c, or assigning c, leaves comments = {None: c} and comment = c;
\* assigning None leaves comments = None.
C6_CommentResolution ==
    [][/\ GetComment => sig_ret' = ResolvedComment(sig.comments)
       /\ (sig = None /\ sig' /= None /\ IsStr(sig_args'.comment)) =>
            /\ sig'.comments = PyDict((None :> sig_args'.comment))
            /\ Signal_comment_get(sig') = sig_args'.comment
       /\ \A v \in {None} \cup Texts : SetComment(v) =>
            IF v = None THEN sig'.comments = None
            ELSE /\ sig'.comments = PyDict((None :> v))
                 /\ Signal_comment_get(sig') = v
      ]_vars

\* the comment was read from a mapping whose None-keyed entry is None and
\* whose "FOR-ALL" and "EN" entries differ: the "FOR-ALL" entry came back
C6_Witness ==
    /\ sig /= None /\ sig.comments /= None
    /\ DictGet(sig.comments, None) = None
    /\ None \in DOMAIN sig.comments.v
    /\ DictGet(sig.comments, PyStr("FOR-ALL")) = PyStr("b")
    /\ DictGet(sig.comments, PyStr("EN")) = PyStr("a")
    /\ sig_ret = PyStr("b")

----------------------------------------------------------------------------
(* Bus: cantools/database/can/bus.py *)

\* str(n) of an int
Digit(d) == <<"0", "1", "2", "3", "4", "5", "6", "7", "8", "9">>[d + 1]

RECURSIVE NatStr(_)
NatStr(n) == IF n < 10 THEN Digit(n) ELSE NatStr(n \div 10) \o Digit(n % 10)

IntStr(n) == IF n < 0 THEN "-" \o NatStr(0 - n) ELSE NatStr(n)

\* a value returned by a call
Returned(op, v) == [t |-> "ret", op |-> op, v |-> v]

Bus_init(a) ==
    [t |-> "Bus",
     name |-> a.name,
     comments |-> IF a.comment = None THEN PyStr("Default comment")
                  ELSE IF IsInt(a.comment)
                       THEN PyDict((None :> PyStr(IntStr(a.comment.v))))
                  ELSE a.comment,
     baudrate |-> a.baudrate,
     fd_baudrate |-> a.baudrate,
     autosar |-> a.autosar_specifics]

\* x.get(k): a str has no attribute get
Get(x, k) == IF x.t = "dict" THEN DictGet(x, k) ELSE Raised("AttributeError")

\* Bus.comment: the value returned, or the exception raised
Bus_comment(self) ==
    IF self.comments = None THEN None
    ELSE IF Get(self.comments, None).t = "raised" THEN Get(self.comments, None)
    ELSE IF Get(self.comments, None) /= None THEN Get(self.comments, None)
    ELSE IF Get(self.comments, PyStr("FOR-ALL")) /= None
         THEN Get(self.comments, PyStr("FOR-ALL"))
    ELSE Get(self.comments, PyStr("EN"))

Bus_comments(self) == self.comments

Bus_baudrate(self) == self.baudrate

Bus_fd_baudrate(self) == self.fd_baudrate

\* repr(bus): the string, or the exception raised while reading comment
Bus_repr(self) ==
    LET c == Bus_comment(self)
    IN  IF c.t = "raised" THEN c
        ELSE PyStr("bus('" \o self.name \o "', " \o
                   (IF c /= None THEN "'" \o c.v \o "'" ELSE "None") \o ")")

BusArgs ==
    [name : {"B"},
     comment : {None, PyInt(0), PyInt(12)} \cup Texts \cup CommentDicts,
     baudrate : OptInts(1, MaxBaudrate),
     fd_baudrate : OptInts(1, MaxBaudrate),
     autosar_specifics : {None, [t |-> "AutosarBusSpecifics"]}]

\* bus = Bus(**a)
BusNew(a) ==
    /\ bus = None
    /\ bus_args' = a
    /\ bus' = Bus_init(a)
    /\ UNCHANGED <<bus_ret, sig_vars, db_vars, cli_vars, main_vars>>

\* a call of op on the bus, whose outcome is out
BusCall(op, out) ==
    /\ bus /= None
    /\ bus_ret' = IF out.t = "raised" THEN out ELSE Returned(op, out)
    /\ UNCHANGED <<bus_args, bus, sig_vars, db_vars, cli_vars, main_vars>>

BusGetComment == BusCall("comment", Bus_comment(bus))

BusGetComments == BusCall("comments", Bus_comments(bus))

BusGetBaudrate == BusCall("baudrate", Bus_baudrate(bus))

BusGetFdBaudrate == BusCall("fd_baudrate", Bus_fd_baudrate(bus))

BusRepr == BusCall("repr", Bus_repr(bus))

NextBus ==
    \/ \E a \in BusArgs : BusNew(a)
    \/ BusGetComment
    \/ BusGetComments
    \/ BusGetBaudrate
    \/ BusGetFdBaudrate
    \/ BusRepr

SpecBus == InitIdle /\ [][NextBus]_vars

\* C7: for a Bus constructed with baudrate r and fd_baudrate f, the
\* baudrate property returns r and the fd_baudrate property returns f.
C7_BaudratesStored ==
    /\ (bus_ret.t = "ret" /\ bus_ret.op = "baudrate") =>
            bus_ret.v = bus_args.baudrate
    /\ (bus_ret.t = "ret" /\ bus_ret.op = "fd_baudrate") =>
            bus_ret.v = bus_args.fd_baudrate

\* the comments a Bus holds for a comment argument that is None, a string
\* or a mapping
BusCommentsFor(comment) ==
    IF IsStr(comment) THEN PyDict((None :> comment)) ELSE comment

\* C9: for a Bus constructed with no comment, a string or a mapping,
\* reading comment and repr never raise, comments is None, {None: c} or the
\* mapping, and comment is the entry the resolution rule selects from it.
C9_BusCommentNeverRaises ==
    (bus /= None /\ ~IsInt(bus_args.comment)) =>
        /\ bus.comments = BusCommentsFor(bus_args.comment)
        /\ bus_ret.t /= "raised"
        /\ (bus_ret.t = "ret" /\ bus_ret.op = "comment") =>
                bus_ret.v = ResolvedComment(BusCommentsFor(bus_args.comment))

----------------------------------------------------------------------------
(* InternalDatabase: cantools/database/can/internal_database.py *)

InternalDatabase_init(a) ==
    [t |-> "InternalDatabase",
     messages |-> a.nodes,
     nodes |-> a.messages,
     buses |-> a.buses,
     version |-> None,
     dbc |-> a.autosar_specifics,
     autosar |-> a.dbc_specifics]

\* lists of at most two of the objects named
ListsOf(x, y) == {PyList(<<>>), PyList(<<x>>), PyList(<<x, y>>)}

InternalDatabaseArgs ==
    [messages : ListsOf("Message1", "Message2"),
     nodes : ListsOf("Node1", "Node2"),
     buses : ListsOf("Bus1", "Bus2"),
     version : {None, PyStr(""), PyStr("1.0")},
     dbc_specifics : {None, [t |-> "DbcSpecifics"]},
     autosar_specifics : {None, [t |-> "AutosarDatabaseSpecifics"]}]

\* db = InternalDatabase(**a)
InternalDatabaseNew(a) ==
    /\ db = None
    /\ db_args' = a
    /\ db' = InternalDatabase_init(a)
    /\ UNCHANGED <<sig_vars, bus_vars, cli_vars, main_vars>>

NextDatabase == \E a \in InternalDatabaseArgs : InternalDatabaseNew(a)

SpecDatabase == InitIdle /\ [][NextDatabase]_vars

\* C8: an InternalDatabase holds, under messages, nodes, buses, version,
\* dbc and autosar, the constructor arguments messages, nodes, buses,
\* version, dbc_specifics and autosar_specifics.
C8_DatabaseFieldsStored ==
    db /= None =>
        /\ db.messages = db_args.messages
        /\ db.nodes = db_args.nodes
        /\ db.buses = db_args.buses
        /\ db.version = db_args.version
        /\ db.dbc = db_args.dbc_specifics
        /\ db.autosar = db_args.autosar_specifics

----------------------------------------------------------------------------
(* The convert subcommand: cantools/subparsers/convert.py, dispatched by   *)
(* _main of cantools/__init__.py                                           *)

\* a function object
Function(name) == [t |-> "function", name |-> name]

\* convert.add_subparser(subparsers): the sub-parser it registers, with the
\* action of each option and the defaults set on it
add_subparser ==
    [t |-> "parser",
     name |-> "convert",
     options |-> [encoding |-> "store", prune |-> "store_false",
                  no_strict |-> "store_false"],
     positionals |-> <<"infile", "outfile">>,
     defaults |-> [func |-> None]]

\* argparse: the value an option flag leaves in the namespace, given
\* whether the flag is on the command line
FlagValue(action, given) ==
    CASE action = "store_true"  -> given
      [] action = "store_false" -> ~given

\* parser.parse_args() of _main for a `convert` command line
parse_args(parser, argv) ==
    [t |-> "Namespace",
     debug |-> FlagValue("store_true", argv.debug),
     subcommand |-> parser.name,
     encoding |-> argv.encoding,
     prune |-> FlagValue(parser.options.prune, argv.prune),
     no_strict |-> FlagValue(parser.options.no_strict, argv.no_strict),
     infile |-> argv.infile,
     outfile |-> argv.outfile,
     func |-> parser.defaults.func]

\* _do_convert(args): the calls it makes to database.load_file and
\* database.dump_file
do_convert(args) ==
    [t |-> "returned",
     load_file |-> [filename |-> args.infile,
                    encoding |-> args.encoding,
                    prune_choices |-> args.prune,
                    strict |-> ~args.no_strict],
     dump_file |-> [filename |-> args.outfile,
                    database_format |-> None,
                    encoding |-> args.encoding]]

\* func(args): calling None raises TypeError
Call(func, args) ==
    IF func = Function("_do_convert") THEN do_convert(args)
    ELSE Raised("TypeError")

\* the end of _main: args.func(args), behind try/except when args.debug
main_dispatch(args) ==
    IF ~args.debug
    THEN Call(args.func, args)
    ELSE IF Call(args.func, args).t = "raised"
         THEN Raised("SystemExit")
         ELSE Call(args.func, args)

\* command lines `cantools [-d] convert [-e E] [--prune] [--no-strict] IN OUT`;
\* each flag is TRUE when it is on the command line
ConvertArgv ==
    [debug : BOOLEAN,
     encoding : {None, PyStr("utf-8"), PyStr("cp1252")},
     prune : BOOLEAN,
     no_strict : BOOLEAN,
     infile : {PyStr("in.dbc"), PyStr("in.kcd")},
     outfile : {PyStr("out.dbc"), PyStr("out.kcd")}]

\* the subparser is registered
CliAddSubparser ==
    /\ cli_parser = None
    /\ cli_parser' = add_subparser
    /\ UNCHANGED <<cli_argv, cli_args, cli_out, sig_vars, bus_vars, db_vars, main_vars>>

\* the command line is parsed
CliParseArgs(argv) ==
    /\ cli_parser /= None
    /\ cli_args = None
    /\ cli_argv' = argv
    /\ cli_args' = parse_args(cli_parser, argv)
    /\ UNCHANGED <<cli_parser, cli_out, sig_vars, bus_vars, db_vars, main_vars>>

\* the handler of the subcommand is called
CliDispatch ==
    /\ cli_args /= None
    /\ cli_out = None
    /\ cli_out' = main_dispatch(cli_args)
    /\ UNCHANGED <<cli_parser, cli_argv, cli_args, sig_vars, bus_vars, db_vars, main_vars>>

NextConvert ==
    \/ CliAddSubparser
    \/ \E argv \in ConvertArgv : CliParseArgs(argv)
    \/ CliDispatch

SpecConvert == InitIdle /\ [][NextConvert]_vars

\* C10: invoking convert with an input and an output file runs _do_convert,
\* which loads the input with strict=True exactly when --no-strict is not on
\* the command line.
C10_ConvertStrictUnlessNoStrict ==
    cli_out /= None =>
        /\ cli_out.t = "returned"
        /\ cli_out.load_file.filename = cli_argv.infile
        /\ cli_out.load_file.strict = ~cli_argv.no_strict

----------------------------------------------------------------------------
(* Loading the subparsers: _main, _load_subparser and _ErrorSubparser of   *)
(* cantools/__init__.py.  A file name is a sequence of characters.         *)

\* s.startswith(p)
StartsWith(s, p) == Len(s) >= Len(p) /\ SubSeq(s, 1, Len(p)) = p

\* s.endswith(p)
EndsWith(s, p) ==
    Len(s) >= Len(p) /\ SubSeq(s, Len(s) - Len(p) + 1, Len(s)) = p

\* s[:-n]
DropLast(s, n) == SubSeq(s, 1, Len(s) - n)

DotPy == <<".", "p", "y">>

\* an exception with its message
RaisedWith(e, message) == [t |-> "raised", v |-> e, message |-> message]

\* the name under which the module or package of a directory entry is
\* imported: the file name without ".py", or the name of the package
ModuleName(e) == IF e.is_package THEN e.name ELSE DropLast(e.name, 3)

\* the entries of the directory that are modules or packages
Modules(dir) == {e \in dir : e.is_package \/ EndsWith(e.name, DotPy)}

\* importlib.import_module('.subparsers.' + name, package='cantools'): the
\* entry imported, or the exception raised.  Importing the module runs it,
\* which raises what the module raises; a name that ends in "." makes
\* importlib import the name before the dot and then fail to find a
\* submodule in it; any other name is no module.
import_module(name, dir) ==
    IF \E e \in Modules(dir) : ModuleName(e) = name
    THEN LET e == CHOOSE e \in Modules(dir) : ModuleName(e) = name
         IN  IF e.import = "ok" THEN [t |-> "module", entry |-> e]
             ELSE RaisedWith(e.import, <<"import of", name>>)
    ELSE IF EndsWith(name, <<".">>)
            /\ \E e \in Modules(dir) : ModuleName(e) = DropLast(name, 1)
    THEN LET e == CHOOSE e \in Modules(dir) : ModuleName(e) = DropLast(name, 1)
         IN  IF e.import = "ok"
             THEN RaisedWith("ImportError", <<"No module named", name>>)
             ELSE RaisedWith(e.import, <<"import of", DropLast(name, 1)>>)
    ELSE RaisedWith("ImportError", <<"No module named", name>>)

\* a registered subcommand: that of a subparser module, or the placeholder
\* of _ErrorSubparser whose handler raises ImportError(message)
Subcommand(name, kind, message) ==
    [name |-> name, kind |-> kind, message |-> message]

\* _ErrorSubparser(subparser_name, error_message).add_subparser(subparsers)
ErrorSubparser_add_subparser(subparser_name, error_message, subs) ==
    subs \cup {Subcommand(subparser_name, "error", error_message)}

\* f'Command "{subparser_name}" is unavailable: "{e}"'
UnavailableMessage(subparser_name, e) ==
    <<"Command", subparser_name, "is unavailable", e.message>>

\* _load_subparser(subparser_name, subparsers): the subcommands registered
\* afterwards and the exception that left it, or None
load_subparser(subparser_name, subs, dir) ==
    LET result == import_module(subparser_name, dir)
        \* result.add_subparser(subparsers) of the module imported
        added == IF result.entry.add_subparser = "ok"
                 THEN None
                 ELSE RaisedWith(result.entry.add_subparser,
                                 <<"add_subparser of", subparser_name>>)
        failure == IF result.t = "raised" THEN result ELSE added
    IN  IF failure = None
        THEN [subs |-> subs \cup
                  {Subcommand(ModuleName(result.entry), "subparser", None)},
              raised |-> None]
        ELSE IF failure.v = "ImportError"
        THEN [subs |-> ErrorSubparser_add_subparser(
                           subparser_name,
                           UnavailableMessage(subparser_name, failure), subs),
              raised |-> None]
        ELSE [subs |-> subs, raised |-> failure]

\* one iteration of the loop of _main over os.listdir(subparsers_dir), for
\* the entry cur: the subcommands registered afterwards and the exception
\* that left the loop, or None
main_loop_body(cur, subs, dir) ==
    IF StartsWith(cur.name, <<"_", "_">>)
    THEN [subs |-> subs, raised |-> None]
    ELSE IF EndsWith(cur.name, DotPy)
    THEN load_subparser(DropLast(cur.name, 2), subs, dir)
    ELSE [subs |-> subs, raised |-> None]

\* parser.parse_args() and args.func(args) at the end of _main, for the
\* subcommand on the command line: argparse exits on a subcommand that is
\* not registered, the placeholder's handler raises ImportError
main_invoke(argv, subs) ==
    IF ~\E sub \in subs : sub.name = argv.subcommand
    THEN RaisedWith("SystemExit", <<"invalid choice", argv.subcommand>>)
    ELSE LET sub == CHOOSE sub \in subs : sub.name = argv.subcommand
             out == IF sub.kind = "error"
                    THEN RaisedWith("ImportError", sub.message)
                    ELSE [t |-> "returned", command |-> sub.name]
         IN  IF ~argv.debug THEN out
             ELSE IF out.t = "raised"
                  THEN RaisedWith("SystemExit", <<"error: ", out.message>>)
                  ELSE out

\* a directory entry: its name, whether it is a directory holding an
\* __init__.py, what importing it does ("ok" or the exception raised) and
\* what its add_subparser does
Entry(name, is_package, import, add) ==
    [name |-> name, is_package |-> is_package, import |-> import,
     add_subparser |-> add]

\* what loading a subparser can do: work, or fail on import or on
\* registration, with ImportError or with another exception
Healths ==
    {<<"ok", "ok">>, <<"ImportError", "ok">>, <<"ValueError", "ok">>,
     <<"ok", "ImportError">>, <<"ok", "ValueError">>}

\* the entries with the given name, one for each health
EntriesNamed(name, is_package) ==
    {Entry(name, is_package, h[1], h[2]) : h \in Healths}

InitPy == Entry(<<"_", "_", "i", "n", "i", "t", "_", "_", ".", "p", "y">>,
                FALSE, "ok", "ok")

ReadmeTxt == Entry(<<"r", ".", "t", "x", "t">>, FALSE, "ok", "ok")

\* one or no element of S, as a set
AtMostOne(S) == {{}} \cup {{x} : x \in S}

\* the subparsers directories: __init__.py, at most one each of the modules
\* c.py and d.py and of the package k, and a file that is no module
Directories ==
    {{InitPy} \cup c \cup d \cup k \cup r :
        c \in AtMostOne(EntriesNamed(<<"c", ".", "p", "y">>, FALSE)),
        d \in AtMostOne(EntriesNamed(<<"d", ".", "p", "y">>, FALSE)),
        k \in AtMostOne(EntriesNamed(<<"k">>, TRUE)),
        r \in AtMostOne({ReadmeTxt})}

\* command lines `cantools [-d] SUBCOMMAND ...`
MainArgv ==
    [t : {"argv"}, debug : BOOLEAN,
     subcommand : {<<"c">>, <<"d">>, <<"k">>, <<"c", ".">>}]

\* _main starts on a subparsers directory
MainStart(dir) ==
    /\ main_dir = None
    /\ main_dir' = [t |-> "dir", entries |-> dir]
    /\ main_left' = dir
    /\ UNCHANGED <<main_subs, main_cmd, main_out,
                   sig_vars, bus_vars, db_vars, cli_vars>>

\* the loop of _main visits the entry cur
MainLoop(cur) ==
    /\ main_dir /= None
    /\ main_out = None
    /\ cur \in main_left
    /\ LET r == main_loop_body(cur, main_subs, main_dir.entries)
       IN  /\ main_subs' = r.subs
           /\ main_out' = r.raised
    /\ main_left' = main_left \ {cur}
    /\ UNCHANGED <<main_dir, main_cmd, sig_vars, bus_vars, db_vars, cli_vars>>

\* after the loop the command line is parsed and its handler called
MainInvoke(argv) ==
    /\ main_dir /= None
    /\ main_left = {}
    /\ main_out = None
    /\ main_cmd = None
    /\ main_cmd' = argv
    /\ main_out' = main_invoke(argv, main_subs)
    /\ UNCHANGED <<main_dir, main_left, main_subs,
                   sig_vars, bus_vars, db_vars, cli_vars>>

NextMain ==
    \/ \E dir \in Directories : MainStart(dir)
    \/ \E cur \in main_left : MainLoop(cur)
    \/ \E argv \in MainArgv : MainInvoke(argv)

SpecMain == InitIdle /\ [][NextMain]_vars

\* an entry the loop is to load: a module file or a package whose name does
\* not start with "__"
Loadable(e) ==
    /\ ~StartsWith(e.name, <<"_", "_">>)
    /\ e.is_package \/ EndsWith(e.name, DotPy)

\* loading and registering the subparser of the entry works
Healthy(e) == e.import = "ok" /\ e.add_subparser = "ok"

\* C11: every module file X.py and package X the loop has visited, whose
\* name does not start with "__", has a subcommand named exactly X: the
\* subparser's own when loading and registering it works, a placeholder when
\* it fails; no failure leaves the loop; invoking a working X runs it, and
\* invoking a failed X raises the ImportError saying command X is unavailable
\* (turned into an exit under --debug).
C11_SubparsersLoadedSafely ==
    main_dir /= None =>
        LET dir == main_dir.entries
        IN  /\ \A e \in dir \ main_left : Loadable(e) =>
                    \E sub \in main_subs :
                        /\ sub.name = ModuleName(e)
                        /\ sub.kind = "subparser" <=> Healthy(e)
            /\ main_cmd = None => main_out = None
            /\ main_cmd /= None =>
                    \A e \in dir :
                        (Loadable(e) /\ ModuleName(e) = main_cmd.subcommand) =>
                            IF Healthy(e)
                            THEN main_out.t = "returned"
                            ELSE /\ main_out.t = "raised"
                                 /\ ~main_cmd.debug =>
                                        /\ main_out.v = "ImportError"
                                        /\ main_out.message[2] = ModuleName(e)

----------------------------------------------------------------------------
(* The bounds of a Signal *)

\* C12: a Signal constructed with minimum <= maximum, both given, has
\* minimum <= maximum stored, also after any assignments to scale, offset,
\* choices, is_float and comment; and each stored bound is None exactly when
\* the argument of the same name was None.
C12_BoundsOrderedAndPresent ==
    sig /= None =>
        /\ (/\ sig_args.minimum /= None /\ sig_args.maximum /= None
            /\ sig_args.minimum.v <= sig_args.maximum.v) =>
                /\ sig.minimum /= None /\ sig.maximum /= None
                /\ sig.minimum.v <= sig.maximum.v
        /\ sig.minimum = None <=> sig_args.minimum = None
        /\ sig.maximum = None <=> sig_args.maximum = None

====
